---------------------------- MODULE Spec2Model ----------------------------
(***************************************************************************)
(* A model of the three artifacts of jbleuzen/webcloud:                    *)
(*   - the "Visual Regression Test" workflow (src/unnamed/part_000),       *)
(*   - the Card component (src/components/card.js),                        *)
(*   - the theme-switching head script quoted by the article               *)
(*     (src/unnamed/part_001, lines 76-131).                               *)
(* The artifacts share no state; each has its own next-state relation and  *)
(* specification over the common variables.                                *)
(***************************************************************************)
EXTENDS Naturals, Sequences, FiniteSets, TLC

VARIABLES
    runs,               \* workflow runs, in the order their events arrived
    renders,            \* the elements Card has rendered so far
    page,               \* position of the page: "closed", "head", "headDone", "ready"
    root,               \* document.documentElement.style: property name -> value
    matches,            \* darkMatcher.matches (the OS colour scheme is dark)
    prefersColorScheme, \* var prefersColorScheme of the head script
    onSetTheme,         \* the function currently held by window.__onSetTheme
    call,               \* the running call of window.__setTheme, or NoCall
    caller,             \* what started the running call: "load" or "user"
    returned,           \* argument of the last call of __setTheme that returned
    seen,               \* what the subscriber was last handed
    localStorage,       \* window.localStorage: key -> value
    persist,            \* the script is the one of "Persist user theme preference"
    loadTheme,          \* the name the head script passed to __setTheme
    lastPassed,         \* history: last name ever passed to __setTheme
    prevPassed          \* history: lastPassed as it was when the page was loaded

ciVars    == <<runs>>
cardVars  == <<renders>>
themeVars == <<page, root, matches, prefersColorScheme, onSetTheme, call, caller,
               returned, seen, localStorage, persist, loadTheme, lastPassed,
               prevPassed>>
vars      == <<runs, renders, page, root, matches, prefersColorScheme, onSetTheme,
               call, caller, returned, seen, localStorage, persist, loadTheme,
               lastPassed, prevPassed>>

\* Bounds of the model.
MaxRuns    == 2
MaxRenders == 2

(***************************************************************************)
(* The workflow: src/unnamed/part_000                                      *)
(***************************************************************************)

\* The states a deployment status can carry.
DeploymentStates == {"pending", "success", "failure", "error", "inactive"}
\* Target URLs of deployments (two, so that overlapping runs can differ).
TargetUrls == {"https://a.example", "https://b.example"}
\* Exit codes of a step's process.
ExitCodes == {0, 1}

\* secrets.PERCY_TOKEN
Secrets == [PERCY_TOKEN |-> "percy-secret"]

EmptyEnv == [v \in {} |-> ""]

\* jobs.build.steps: name and the step's own env, evaluated against the
\* event of the run the step belongs to.
StepNames == <<"Checkout", "Install", "Percy Test">>

StepEnvLatestEvent(i, event) ==
    IF StepNames[i] = "Percy Test"
    THEN [PERCY_TOKEN |-> Secrets.PERCY_TOKEN,
          DEPLOY_URL  |-> runs[Len(runs)].event.deployment_status.target_url]
    ELSE EmptyEnv

StepEnv(i, event) ==
    IF StepNames[i] = "Percy Test"
    THEN [PERCY_TOKEN |-> Secrets.PERCY_TOKEN,
          DEPLOY_URL  |-> event.deployment_status.target_url]
    ELSE EmptyEnv

\* jobs.build.if
JobIfNotFailure(event) == event.deployment_status.state # "failure"

JobIf(event) == event.deployment_status.state = "success"

\* No step carries an `if:` or `continue-on-error:`, so each step has the
\* default condition success(): every earlier step of the job succeeded.
StepIfAlways(log) == TRUE

StepIf(log) == \A i \in DOMAIN log : log[i].status = "success"

StepConclusion(code) == IF code = 0 THEN "success" ELSE "failure"

InProgress(log) == \E i \in DOMAIN log : log[i].status = "in_progress"

\* on: deployment_status -- an event arrives and a workflow run is created
\* for it, holding the event's payload.
DeploymentStatus(s, u) ==
    /\ Len(runs) < MaxRuns
    /\ runs' = Append(runs,
                 [event |-> [deployment_status |-> [state |-> s, target_url |-> u]],
                  job   |-> "queued",
                  log   |-> <<>>])
    /\ UNCHANGED <<cardVars, themeVars>>

\* The job's `if` is evaluated against the run's own event.
EvaluateJobIf(r) ==
    /\ runs[r].job = "queued"
    /\ runs' = [runs EXCEPT ![r].job =
                  IF JobIf(runs[r].event) THEN "in_progress" ELSE "skipped"]
    /\ UNCHANGED <<cardVars, themeVars>>

\* The runner takes the next step of the list: it starts it when the step's
\* condition holds and marks it skipped otherwise.
StartStep(r) ==
    /\ runs[r].job = "in_progress"
    /\ ~InProgress(runs[r].log)
    /\ Len(runs[r].log) < Len(StepNames)
    /\ LET i == Len(runs[r].log) + 1
       IN runs' = [runs EXCEPT ![r].log = Append(@,
                     [name   |-> StepNames[i],
                      env    |-> StepEnv(i, runs[r].event),
                      status |-> IF StepIf(runs[r].log)
                                 THEN "in_progress" ELSE "skipped"])]
    /\ UNCHANGED <<cardVars, themeVars>>

\* The running step's process exits.
FinishStep(r, code) ==
    /\ runs[r].job = "in_progress"
    /\ InProgress(runs[r].log)
    /\ runs' = [runs EXCEPT ![r].log[Len(runs[r].log)].status = StepConclusion(code)]
    /\ UNCHANGED <<cardVars, themeVars>>

\* Every step has been run or skipped: the job concludes.
ConcludeJob(r) ==
    /\ runs[r].job = "in_progress"
    /\ ~InProgress(runs[r].log)
    /\ Len(runs[r].log) = Len(StepNames)
    /\ runs' = [runs EXCEPT ![r].job =
                  IF \E i \in DOMAIN runs[r].log : runs[r].log[i].status = "failure"
                  THEN "failure" ELSE "success"]
    /\ UNCHANGED <<cardVars, themeVars>>

NextCI ==
    \/ \E s \in DeploymentStates, u \in TargetUrls : DeploymentStatus(s, u)
    \/ \E r \in DOMAIN runs : EvaluateJobIf(r)
    \/ \E r \in DOMAIN runs : StartStep(r)
    \/ \E r \in DOMAIN runs, code \in ExitCodes : FinishStep(r, code)
    \/ \E r \in DOMAIN runs : ConcludeJob(r)

(***************************************************************************)
(* The Card component: src/components/card.js                              *)
(***************************************************************************)

\* The first argument of createComponent: a style object, not a function
\* of the props.
CardRule ==
    [padding       |-> "32px 16px",
     flexDirection |-> "column",
     display       |-> "flex",
     background    |-> "var(--color-bg-alt)",
     boxShadow     |-> "var(--shadow)"]

\* The second argument of createComponent.
CardType == "div"

\* Props a caller may pass, as name -> value, and children.
PropNames  == {"padding", "title"}
PropValues == {"0", "8px"}
PropSets   == UNION {[names -> PropValues] : names \in SUBSET PropNames}
Children   == {"", "text"}

CardStyledByProps(props, children) ==
    [type     |-> CardType,
     style    |-> [k \in DOMAIN CardRule |->
                     IF k \in DOMAIN props THEN props[k] ELSE CardRule[k]],
     children |-> children]

\* What rendering <Card {...props}>{children}</Card> yields: the element
\* type, the style declarations of the rule, the children passed through.
Card(props, children) ==
    [type     |-> CardType,
     style    |-> CardRule,
     children |-> children]

Render(props, children) ==
    /\ Len(renders) < MaxRenders
    /\ renders' = Append(renders,
                    [props |-> props, element |-> Card(props, children)])
    /\ UNCHANGED <<ciVars, themeVars>>

NextCard == \E props \in PropSets, children \in Children : Render(props, children)

(***************************************************************************)
(* The head script of the article: src/unnamed/part_001, lines 76-131      *)
(***************************************************************************)

NoCall == [active |-> FALSE]
Null   == "null"

\* var themes = { light: {...}, dark: {...} }
themes ==
    ("light" :> ("color-fg" :> "#000" @@ "color-bg" :> "#fff")) @@
    ("dark"  :> ("color-fg" :> "#000" @@ "color-bg" :> "#fff"))

ThemeNames == DOMAIN themes

\* Object.keys(theme): the keys in the order the literal lists them.
ObjectKeys(theme) == <<"color-fg", "color-bg">>

\* "--" + key
PropertyNameBare(key) == key

PropertyName(key) == "--" \o key

\* root.setProperty(name, value)
SetProperty(style, name, value) ==
    [p \in DOMAIN style \cup {name} |-> IF p = name THEN value ELSE style[p]]

\* a || b of JavaScript, on strings and null
JsOr(a, b) == IF a \in {Null, ""} THEN b ELSE a

\* The argument of the call of __setTheme that ends the head script:
\* prefersColorScheme (line 109), or savedTheme || prefersColorScheme once
\* persistence is added (lines 129-130).
LoadArgumentPreferredFirst(saved, preferred) == JsOr(preferred, saved)

LoadArgument(saved, preferred) ==
    IF persist THEN JsOr(saved, preferred) ELSE preferred

\* window.localStorage.setItem("themeName", themeName), the line persistence
\* adds at the top of __setTheme (line 121).
SetItem(storage, themeName) ==
    IF persist THEN [storage EXCEPT !.themeName = themeName] ELSE storage

\* Entry of window.__setTheme(themeName): lines 101-103 (and 121).
EnterSetTheme(themeName) ==
    /\ localStorage' = SetItem(localStorage, themeName)
    /\ call' = [active |-> TRUE, themeName |-> themeName,
                theme |-> themes[themeName], i |-> 1, phase |-> "set"]
    /\ lastPassed' = themeName

\* The page is opened and the render-blocking script runs: lines 92-100,
\* then the call of line 109 (line 130 with persistence) is entered.
LoadPage ==
    /\ page = "closed"
    /\ page' = "head"
    /\ root' = EmptyEnv
    /\ prefersColorScheme' = IF matches THEN "dark" ELSE "light"
    /\ onSetTheme' = "noop"
    /\ LET savedTheme == localStorage.themeName
           arg == LoadArgument(savedTheme, prefersColorScheme')
       IN /\ loadTheme' = arg
          /\ EnterSetTheme(arg)
    /\ caller' = "load"
    /\ prevPassed' = lastPassed
    /\ returned' = Null
    /\ seen' = Null
    /\ UNCHANGED <<ciVars, cardVars, matches, persist>>

\* Line 105: root.setProperty("--" + key, theme[key]) for the current key.
SetThemeProperty ==
    /\ call.active /\ call.phase = "set"
    /\ LET key == ObjectKeys(call.theme)[call.i]
       IN root' = SetProperty(root, PropertyName(key), call.theme[key])
    /\ call' = [call EXCEPT !.phase = "notify"]
    /\ UNCHANGED <<ciVars, cardVars, page, matches, prefersColorScheme, onSetTheme,
                   caller, returned, seen, localStorage, persist, loadTheme,
                   lastPassed, prevPassed>>

\* Line 106: window.__onSetTheme(theme), inside the forEach callback; then
\* the next key, or the return of __setTheme after the last one.
NotifyOnSetTheme ==
    /\ call.active /\ call.phase = "notify"
    /\ seen' = IF onSetTheme = "subscriber" THEN call.theme ELSE seen
    /\ IF call.i < Len(ObjectKeys(call.theme))
       THEN /\ call' = [call EXCEPT !.i = @ + 1, !.phase = "set"]
            /\ UNCHANGED <<page, returned, caller>>
       ELSE /\ call' = NoCall
            /\ returned' = call.themeName
            /\ page' = IF caller = "load" THEN "headDone" ELSE page
            /\ caller' = "none"
    /\ UNCHANGED <<ciVars, cardVars, root, matches, prefersColorScheme, onSetTheme,
                   localStorage, persist, loadTheme, lastPassed, prevPassed>>

\* The head script is done; the page renders for the first time.
InitialRender ==
    /\ page = "headDone"
    /\ page' = "ready"
    /\ UNCHANGED <<ciVars, cardVars, root, matches, prefersColorScheme, onSetTheme,
                   call, caller, returned, seen, localStorage, persist, loadTheme,
                   lastPassed, prevPassed>>

\* The React app overrides window.__onSetTheme (comment of lines 96-99).
InstallSubscriber ==
    /\ page = "ready" /\ ~call.active
    /\ onSetTheme = "noop"
    /\ onSetTheme' = "subscriber"
    /\ UNCHANGED <<ciVars, cardVars, page, root, matches, prefersColorScheme, call,
                   caller, returned, seen, localStorage, persist, loadTheme,
                   lastPassed, prevPassed>>

\* The UI calls window.__setTheme(themeName).
UserSetTheme(themeName) ==
    /\ page = "ready" /\ ~call.active
    /\ EnterSetTheme(themeName)
    /\ caller' = "user"
    /\ UNCHANGED <<ciVars, cardVars, page, root, matches, prefersColorScheme,
                   onSetTheme, returned, seen, persist, loadTheme, prevPassed>>

\* The page is closed; localStorage outlives it.
ClosePage ==
    /\ page = "ready" /\ ~call.active
    /\ page' = "closed"
    /\ UNCHANGED <<ciVars, cardVars, root, matches, prefersColorScheme, onSetTheme,
                   call, caller, returned, seen, localStorage, persist, loadTheme,
                   lastPassed, prevPassed>>

\* The user changes the colour scheme of the OS.  Nothing of the script
\* listens: the listener of lines 140-142 names `darkmatcher` and `setTheme`,
\* neither of which the script defines.
ChangeColorScheme ==
    /\ matches' = ~matches
    /\ UNCHANGED <<ciVars, cardVars, page, root, prefersColorScheme, onSetTheme,
                   call, caller, returned, seen, localStorage, persist, loadTheme,
                   lastPassed, prevPassed>>

NextTheme ==
    \/ LoadPage
    \/ SetThemeProperty
    \/ NotifyOnSetTheme
    \/ InitialRender
    \/ InstallSubscriber
    \/ \E themeName \in ThemeNames : UserSetTheme(themeName)
    \/ ClosePage
    \/ ChangeColorScheme

(***************************************************************************)
(* Initial state and specifications                                        *)
(***************************************************************************)

InitCommon ==
    /\ runs = <<>>
    /\ renders = <<>>
    /\ page = "closed"
    /\ root = EmptyEnv
    /\ matches \in BOOLEAN
    /\ prefersColorScheme = Null
    /\ onSetTheme = "none"
    /\ call = NoCall
    /\ caller = "none"
    /\ returned = Null
    /\ seen = Null
    /\ localStorage = [themeName |-> Null]
    /\ loadTheme = Null
    /\ lastPassed = Null
    /\ prevPassed = Null

\* The script as first given (lines 90-110).
Init == InitCommon /\ persist = FALSE

\* The script with persistence added (lines 117-131).
InitPersist == InitCommon /\ persist = TRUE

SpecCI      == Init /\ [][NextCI]_vars
SpecCard    == Init /\ [][NextCard]_vars
SpecTheme   == Init /\ [][NextTheme]_vars
SpecPersist == InitPersist /\ [][NextTheme]_vars

(***************************************************************************)
(* Properties                                                              *)
(***************************************************************************)

Started(entry) == entry.status \in {"in_progress", "success", "failure"}

\* C1: the build job, and so each of its steps, runs only in a run whose
\* event carries deployment_status.state = "success"; a run of any other
\* state never leaves "queued"/"skipped" and never has a step.
JobRunsOnlyOnSuccess ==
    \A r \in DOMAIN runs :
        (runs[r].job \in {"in_progress", "success", "failure"} \/ Len(runs[r].log) > 0)
            => runs[r].event.deployment_status.state = "success"

\* A run of a success event went through all three steps while a run of a
\* failure event was skipped.
JobRunsOnlyOnSuccessWitness ==
    \E r1, r2 \in DOMAIN runs :
        /\ runs[r1].event.deployment_status.state = "success"
        /\ Len(runs[r1].log) = Len(StepNames)
        /\ runs[r2].event.deployment_status.state = "failure"
        /\ runs[r2].job = "skipped"

\* C2: the steps of a run are taken in the order Checkout, Install, Percy
\* Test, each at most once; a step is started only after every earlier step
\* succeeded, so after a failed Install the Percy Test step is never started;
\* a failed Install or Percy Test never lets the job conclude "success", and
\* a concluded job is "failure" exactly when a step failed.
StepsInOrderFailureEndsRun ==
    \A r \in DOMAIN runs :
        LET log == runs[r].log
        IN /\ Len(log) <= Len(StepNames)
           /\ \A i \in DOMAIN log : log[i].name = StepNames[i]
           /\ \A i \in DOMAIN log :
                Started(log[i]) => \A j \in 1..(i - 1) : log[j].status = "success"
           /\ \A i \in DOMAIN log :
                (log[i].name \in {"Install", "Percy Test"} /\ log[i].status = "failure")
                    => /\ runs[r].job \in {"in_progress", "failure"}
                       /\ \A j \in DOMAIN log : j > i => log[j].status = "skipped"
           /\ runs[r].job \in {"success", "failure"}
                => (runs[r].job = "failure"
                        <=> \E i \in DOMAIN log : log[i].status = "failure")

\* Install failed, Percy Test was skipped and the job concluded "failure".
StepsInOrderFailureEndsRunWitness ==
    \E r \in DOMAIN runs :
        /\ Len(runs[r].log) = Len(StepNames)
        /\ runs[r].log[2].status = "failure"
        /\ runs[r].log[3].status = "skipped"
        /\ runs[r].job = "failure"

\* C3: the DEPLOY_URL of a run's Percy Test step is the target_url of the
\* event that triggered that run, also when runs overlap, and PERCY_TOKEN is
\* in the environment of the Percy Test step only.
PercyEnvFromOwnEvent ==
    \A r \in DOMAIN runs : \A i \in DOMAIN runs[r].log :
        LET entry == runs[r].log[i]
        IN IF entry.name = "Percy Test"
           THEN /\ DOMAIN entry.env = {"PERCY_TOKEN", "DEPLOY_URL"}
                /\ entry.env.DEPLOY_URL = runs[r].event.deployment_status.target_url
                /\ entry.env.PERCY_TOKEN = Secrets.PERCY_TOKEN
           ELSE "PERCY_TOKEN" \notin DOMAIN entry.env

\* Two runs of different target URLs are both inside their Percy Test step.
PercyEnvFromOwnEventWitness ==
    \E r1, r2 \in DOMAIN runs :
        /\ runs[r1].event.deployment_status.target_url
               # runs[r2].event.deployment_status.target_url
        /\ Len(runs[r1].log) = Len(StepNames)
        /\ Len(runs[r2].log) = Len(StepNames)
        /\ runs[r1].log[3].status = "in_progress"
        /\ runs[r2].log[3].status = "in_progress"

RootCarries(themeName) ==
    \A k \in DOMAIN themes[themeName] :
        /\ ("--" \o k) \in DOMAIN root
        /\ root["--" \o k] = themes[themeName][k]

\* C5: once __setTheme(n) has returned, the root has the custom property
\* "--" + k with value themes[n][k] for every key k of themes[n]; when the
\* head script is done, before the initial render, that theme is the one
\* named by prefersColorScheme.
RootCarriesThemeAfterSetTheme ==
    /\ (~call.active /\ returned # Null) => RootCarries(returned)
    /\ page = "headDone"
         => /\ prefersColorScheme \in ThemeNames
            /\ returned = prefersColorScheme
            /\ RootCarries(prefersColorScheme)

\* The user switched to the dark theme on a page loaded under a light OS
\* scheme, with a subscriber installed, and the call has returned.
RootCarriesThemeAfterSetThemeWitness ==
    /\ page = "ready" /\ ~call.active
    /\ prefersColorScheme = "light"
    /\ returned = "dark"
    /\ onSetTheme = "subscriber"
    /\ RootCarries("dark")

\* C6: whenever the subscriber is invoked during __setTheme(n), every key
\* of themes[n] has already been set on the root by that call.
SubscriberSeesWholeTheme ==
    (call.active /\ call.phase = "notify" /\ onSetTheme = "subscriber")
        => call.i = Len(ObjectKeys(call.theme))

\* C7: with persistence, the head script applies the last name passed to
\* __setTheme in an earlier session, whatever prefersColorScheme is, and
\* prefersColorScheme when no name was ever passed.
LoadAppliesPersistedThemeFirst ==
    page \in {"head", "headDone", "ready"}
        => /\ loadTheme = IF prevPassed # Null THEN prevPassed ELSE prefersColorScheme
           /\ page = "headDone" => returned = loadTheme

\* A page loaded under a light OS scheme applied the dark theme an earlier
\* session had chosen.
LoadAppliesPersistedThemeFirstWitness ==
    /\ page = "headDone"
    /\ prevPassed = "dark"
    /\ prefersColorScheme = "light"
    /\ loadTheme = "dark"
    /\ returned = "dark"

=============================================================================
